---- MODULE Spec2Model ----
(***************************************************************************)
(* Model of greenlight's process bootstrap, cmd/api/main.go: configuration *)
(* resolution from flags and environment, openDB, the expvar accessors and *)
(* the lifecycle of main.  Strings are sequences of one-character strings  *)
(* so that strconv.Atoi, strconv.ParseBool, time.ParseDuration and         *)
(* strings.Split are computed and not assumed.                             *)
(***************************************************************************)
EXTENDS Integers, Sequences, FiniteSets, TLC

VARIABLES
    dotenv,     \* whether godotenv.Load(".env") can read the file
    environ,    \* the process environment os.Getenv reads (unset reads as "")
    args,       \* the -name=value flags on the command line
    pc,         \* the position of main
    exited,     \* whether the process has exited
    exitCode,   \* its exit status, once exited
    cfg,        \* main's cfg, keyed by flag name
    pool,       \* the sql.DB that sql.Open made (openDB's local db)
    db,         \* main's db: "nil" or "pool"
    err,        \* main's err: "nil" or the failure
    deferred,   \* main's deferred calls
    published,  \* the names in the expvar registry
    models,     \* the handle data.NewModels was given ("unset" before)
    wg,         \* app.wg, the counter of the WaitGroup
    tasks,      \* the background tasks: position of each
    now,        \* the wall clock, in ticks
    deadline,   \* the end of the shutdown grace period, once draining
    drainLog,   \* what the shutdown logged about the drain
    lastPoll    \* the last answer an expvar accessor gave

vars == <<dotenv, environ, args, pc, exited, exitCode, cfg, pool, db, err,
          deferred, published, models, wg, tasks, now, deadline, drainLog,
          lastPoll>>

configVars == <<dotenv, environ, args, cfg>>
poolVars == <<pool, db, err>>
taskVars == <<wg, tasks>>
drainVars == <<deadline, drainLog>>

---------------------------------------------------------------------------
(* Strings *)

Digits == {"0", "1", "2", "3", "4", "5", "6", "7", "8", "9"}

DigitVal(c) ==
    CASE c = "0" -> 0 [] c = "1" -> 1 [] c = "2" -> 2 [] c = "3" -> 3
      [] c = "4" -> 4 [] c = "5" -> 5 [] c = "6" -> 6 [] c = "7" -> 7
      [] c = "8" -> 8 [] c = "9" -> 9

Empty == << >>
S_4000 == <<"4", "0", "0", "0">>
S_development == <<"d", "e", "v", "e", "l", "o", "p", "m", "e", "n", "t">>
S_25 == <<"2", "5">>
S_15m == <<"1", "5", "m">>
S_10 == <<"1", "0">>
S_false == <<"f", "a", "l", "s", "e">>
S_ab == <<"a", ",", "b">>
S_star == <<"*">>

RECURSIVE DecimalValue(_)
DecimalValue(s) ==
    IF s = Empty THEN 0
    ELSE 10 * DecimalValue(SubSeq(s, 1, Len(s) - 1)) + DigitVal(s[Len(s)])

\* strconv.Atoi: an optional sign and one or more decimal digits; (0, err) on a
\* syntax error.  The modelled inputs are far below the 64-bit range.
Atoi(s) ==
    LET signed == Len(s) > 0 /\ s[1] \in {"+", "-"}
        body == IF signed THEN Tail(s) ELSE s
        ok == Len(body) > 0 /\ \A i \in 1..Len(body) : body[i] \in Digits
    IN  IF ~ok THEN [n |-> 0, err |-> TRUE]
        ELSE [n |-> IF signed /\ s[1] = "-" THEN 0 - DecimalValue(body)
                    ELSE DecimalValue(body),
              err |-> FALSE]

\* strconv.ParseBool
ParseBool(s) ==
    IF s \in {<<"1">>, <<"t">>, <<"T">>, <<"t", "r", "u", "e">>,
              <<"T", "R", "U", "E">>, <<"T", "r", "u", "e">>}
    THEN [b |-> TRUE, err |-> FALSE]
    ELSE IF s \in {<<"0">>, <<"f">>, <<"F">>, <<"f", "a", "l", "s", "e">>,
                   <<"F", "A", "L", "S", "E">>, <<"F", "a", "l", "s", "e">>}
    THEN [b |-> FALSE, err |-> FALSE]
    ELSE [b |-> FALSE, err |-> TRUE]

\* The length of the longest prefix of s whose characters are all in (or, with
\* inside = FALSE, all outside) the set cs.
RECURSIVE RunLen(_, _, _)
RunLen(s, cs, inside) ==
    IF s = Empty \/ ((s[1] \in cs) # inside) THEN 0
    ELSE 1 + RunLen(Tail(s), cs, inside)

\* Milliseconds per unit.  time.ParseDuration also knows ns and us, which are
\* below the millisecond this model counts in; no modelled input uses them.
UnitMs(u) ==
    CASE u = <<"m", "s">> -> 1
      [] u = <<"s">> -> 1000
      [] u = <<"m">> -> 60000
      [] u = <<"h">> -> 3600000
      [] OTHER -> 0

\* The groups of time.ParseDuration: digits, then a unit running up to the next
\* digit; "missing unit" and "unknown unit" are errors.
RECURSIVE DurationGroups(_)
DurationGroups(s) ==
    IF s = Empty THEN [d |-> 0, err |-> FALSE]
    ELSE LET nd == RunLen(s, Digits, TRUE)
             rest == SubSeq(s, nd + 1, Len(s))
             nu == RunLen(rest, Digits, FALSE)
             unit == SubSeq(rest, 1, nu)
             more == DurationGroups(SubSeq(rest, nu + 1, Len(rest)))
         IN  IF nd = 0 \/ nu = 0 \/ UnitMs(unit) = 0 \/ more.err
             THEN [d |-> 0, err |-> TRUE]
             ELSE [d |-> DecimalValue(SubSeq(s, 1, nd)) * UnitMs(unit) + more.d,
                   err |-> FALSE]

\* time.ParseDuration, without fractions: [-+]?([0-9]+[a-z]+)+, and "0".
ParseDuration(s) ==
    LET signed == Len(s) > 0 /\ s[1] \in {"+", "-"}
        body == IF signed THEN Tail(s) ELSE s
        g == DurationGroups(body)
    IN  IF body = <<"0">> THEN [d |-> 0, err |-> FALSE]
        ELSE IF body = Empty \/ g.err THEN [d |-> 0, err |-> TRUE]
        ELSE [d |-> IF signed /\ s[1] = "-" THEN 0 - g.d ELSE g.d, err |-> FALSE]

\* strings.Split(s, ","): the pieces between the commas; one empty piece for "".
RECURSIVE Split(_)
Split(s) ==
    LET n == RunLen(s, {","}, FALSE)
    IN  IF n = Len(s) THEN <<s>>
        ELSE <<SubSeq(s, 1, n)>> \o Split(SubSeq(s, n + 2, Len(s)))

---------------------------------------------------------------------------
(* Configuration: flags, environment, defaults *)

version == <<"1", ".", "0", ".", "0">>

FlagNames ==
    {"port", "env", "db-dsn", "db-max-open-conns", "db-max-idle-conns",
     "db-max-idle-time", "limiter-rps", "limiter-burst", "limiter-enabled",
     "smtp-host", "smtp-port", "smtp-username", "smtp-password", "smtp-sender",
     "cors-trusted-origins"}

\* How the flag package holds each flag: StringVar, IntVar, BoolVar or Func.
KindOf(f) ==
    CASE f \in {"limiter-rps", "limiter-burst", "smtp-port"} -> "int"
      [] f = "limiter-enabled" -> "bool"
      [] f = "cors-trusted-origins" -> "func"
      [] OTHER -> "string"

\* The environment variable named after each setting.
OwnEnv(f) ==
    CASE f = "port" -> "PORT"
      [] f = "env" -> "ENVIRONMENT"
      [] f = "db-dsn" -> "GREENLIGHT_DB_DSN"
      [] f = "db-max-open-conns" -> "DB_MAX_OPEN_CONNS"
      [] f = "db-max-idle-conns" -> "DB_MAX_IDLE_CONNS"
      [] f = "db-max-idle-time" -> "DB_MAX_IDLE_TIME"
      [] f = "limiter-rps" -> "LIMITER_RPS"
      [] f = "limiter-burst" -> "LIMITER_BURST"
      [] f = "limiter-enabled" -> "LIMITER_ENABLED"
      [] f = "smtp-host" -> "SMTP_HOST"
      [] f = "smtp-port" -> "SMTP_PORT"
      [] f = "smtp-username" -> "SMTP_USERNAME"
      [] f = "smtp-password" -> "SMTP_PASSWORD"
      [] f = "smtp-sender" -> "SMTP_SENDER"
      [] f = "cors-trusted-origins" -> "CORS_TRUSTED_ORIGIN"

EnvNames == {OwnEnv(f) : f \in FlagNames}

\* os.Getenv: the value, "" when the variable is unset.
Getenv(e, name) == e[name]

getEnv(e, name, value) ==
    IF Getenv(e, name) # Empty THEN Getenv(e, name) ELSE value

getIntEnvErrDropped(e, name, value) ==
    LET v == Getenv(e, name)
    IN  IF v = Empty THEN [v |-> value, fatal |-> FALSE]
        ELSE [v |-> Atoi(v).n, fatal |-> FALSE]

\* fatal: log.Fatal was called (the process exits with status 1).
getIntEnv(e, name, value) ==
    LET v == Getenv(e, name)
    IN  IF v = Empty THEN [v |-> value, fatal |-> FALSE]
        ELSE [v |-> Atoi(v).n, fatal |-> Atoi(v).err]

getBoolEnv(e, name, value) ==
    LET v == Getenv(e, name)
    IN  IF v = Empty THEN [v |-> value, fatal |-> FALSE]
        ELSE [v |-> ParseBool(v).b, fatal |-> ParseBool(v).err]

Plain(v) == [v |-> v, fatal |-> FALSE]

\* The default each flag is registered with, lines 70 to 86.  The Func flag
\* has none: cfg.cors.trustedOrigins stays nil, written << >>.
FlagDefault(e, f) ==
    CASE f = "port" -> Plain(getEnv(e, "PORT", S_4000))
      [] f = "env" -> Plain(getEnv(e, "ENVIRONMENT", S_development))
      [] f = "db-dsn" -> Plain(Getenv(e, "GREENLIGHT_DB_DSN"))
      [] f = "db-max-open-conns" -> Plain(getEnv(e, "DB_MAX_IDLE_TIME", S_25))
      [] f = "db-max-idle-conns" -> Plain(getEnv(e, "DB_MAX_IDLE_TIME", S_25))
      [] f = "db-max-idle-time" -> Plain(getEnv(e, "DB_MAX_IDLE_TIME", S_15m))
      [] f = "limiter-rps" -> getIntEnv(e, "LIMITER_RPS", 2)
      [] f = "limiter-burst" -> getIntEnv(e, "LIMITER_BURST", 4)
      [] f = "limiter-enabled" -> getBoolEnv(e, "LIMITER_ENABLED", TRUE)
      [] f = "smtp-host" -> Plain(getEnv(e, "SMTP_HOST", Empty))
      [] f = "smtp-port" -> getIntEnv(e, "SMTP_PORT", 25)
      [] f = "smtp-username" -> Plain(getEnv(e, "SMTP_USERNAME", Empty))
      [] f = "smtp-password" -> Plain(getEnv(e, "SMTP_PASSWORD", Empty))
      [] f = "smtp-sender" -> Plain(getEnv(e, "SMTP_SENDER", S_15m))
      [] f = "cors-trusted-origins" -> Plain(<< >>)

\* The callback of flag.Func, lines 88 to 91: it does not read val.
corsTrustedOrigins(e, val) == Split(getEnv(e, "CORS_TRUSTED_ORIGIN", S_star))

\* What flag.Parse does with -f=val: the value stored, or err (usage, exit 2).
\* For the modelled inputs the base-0 ParseInt of IntVar reads what Atoi reads.
FlagSet(e, f, val) ==
    CASE KindOf(f) = "string" -> [v |-> val, err |-> FALSE]
      [] KindOf(f) = "int" -> [v |-> Atoi(val).n, err |-> Atoi(val).err]
      [] KindOf(f) = "bool" -> [v |-> ParseBool(val).b, err |-> ParseBool(val).err]
      [] KindOf(f) = "func" -> [v |-> corsTrustedOrigins(e, val), err |-> FALSE]

\* The zero value of config, line 68.
ZeroConfig ==
    [f \in FlagNames |->
        CASE KindOf(f) = "int" -> 0
          [] KindOf(f) = "bool" -> FALSE
          [] KindOf(f) = "func" -> << >>
          [] OTHER -> Empty]

---------------------------------------------------------------------------
(* Inputs *)

\* Values tried for every flag and variable: an integer, a duration, a boolean
\* and a list.  Each is malformed for the other types.
TestValues == {S_10, S_15m, S_false, S_ab}

UnsetEnv == [n \in EnvNames |-> Empty]

\* Every combination of {flag supplied or not} x {own variable set or not} for
\* one setting of S at a time, everything else unset.
Inputs(S) ==
    UNION {
        { [args |-> a, environ |-> [UnsetEnv EXCEPT ![OwnEnv(f)] = ev]] :
            a \in {<< >>} \cup {[g \in {f} |-> fv] : fv \in TestValues},
            ev \in {Empty} \cup TestValues }
        : f \in S }

---------------------------------------------------------------------------
(* Bounds *)

MaxTasks == 2       \* background tasks submitted in one run
MaxTime == 1        \* ticks of the clock before shutdown
GracePeriod == 1    \* ticks of the shutdown grace period
MaxConns == 1       \* connections the handlers hold at once

---------------------------------------------------------------------------
(* Initial states *)

NoPool ==
    [opened |-> FALSE, maxOpen |-> 0, maxIdle |-> 0, maxIdleTime |-> 0,
     pings |-> 0, lastPing |-> "none", closes |-> 0, open |-> 0, inUse |-> 0]

InitWith(inputs) ==
    /\ dotenv \in BOOLEAN
    /\ \E in \in inputs : args = in.args /\ environ = in.environ
    /\ pc = "init"
    /\ exited = FALSE
    /\ exitCode = 0
    /\ cfg = ZeroConfig
    /\ pool = NoPool
    /\ db = "nil"
    /\ err = "nil"
    /\ deferred = << >>
    /\ published = {}
    /\ models = "unset"
    /\ wg = 0
    /\ tasks = [i \in 1..MaxTasks |-> "idle"]
    /\ now = 0
    /\ deadline = 0
    /\ drainLog = [kind |-> "none", count |-> 0]
    /\ lastPoll = [name |-> "none", value |-> 0]

---------------------------------------------------------------------------
(* Process exit: os.Exit runs no deferred call *)

Exit(code) == exited' = TRUE /\ exitCode' = code

\* log.Fatal: Print, then os.Exit(1).
logFatal == Exit(1)

\* logger.PrintFatal of internal/jsonlog: a fatal log entry and a non-zero exit.
PrintFatal == Exit(1)

---------------------------------------------------------------------------
(* Startup: init and main up to the call of serve *)

init ==
    /\ ~exited /\ pc = "init"
    /\ IF dotenv
       THEN pc' = "flags" /\ UNCHANGED <<exited, exitCode>>
       ELSE logFatal /\ UNCHANGED pc
    /\ UNCHANGED <<configVars, poolVars, deferred, published, models, taskVars,
                   now, drainVars, lastPoll>>

\* Lines 70 to 91: every default is computed, then stored in cfg.
RegisterFlags ==
    /\ ~exited /\ pc = "flags"
    /\ IF \E f \in FlagNames : FlagDefault(environ, f).fatal
       THEN logFatal /\ UNCHANGED <<pc, cfg>>
       ELSE /\ cfg' = [f \in FlagNames |-> FlagDefault(environ, f).v]
            /\ pc' = "parse"
            /\ UNCHANGED <<exited, exitCode>>
    /\ UNCHANGED <<dotenv, environ, args, poolVars, deferred, published, models,
                   taskVars, now, drainVars, lastPoll>>

\* Line 93, flag.Parse with flag.ExitOnError: a value that does not parse ends
\* the process with status 2.
FlagParse ==
    /\ ~exited /\ pc = "parse"
    /\ IF \E f \in DOMAIN args : FlagSet(environ, f, args[f]).err
       THEN Exit(2) /\ UNCHANGED <<pc, cfg>>
       ELSE /\ cfg' = [f \in FlagNames |->
                        IF f \in DOMAIN args THEN FlagSet(environ, f, args[f]).v
                        ELSE cfg[f]]
            /\ pc' = "openDB"
            /\ UNCHANGED <<exited, exitCode>>
    /\ UNCHANGED <<dotenv, environ, args, poolVars, deferred, published, models,
                   taskVars, now, drainVars, lastPoll>>

\* openDB, lines 165 to 168: sql.Open.
SqlOpen ==
    /\ ~exited /\ pc = "openDB"
    /\ \E ok \in BOOLEAN :
        IF ok
        THEN /\ pool' = [pool EXCEPT !.opened = TRUE]
             /\ pc' = "limits"
             /\ UNCHANGED <<db, err>>
        ELSE /\ db' = "nil" /\ err' = "open"
             /\ pc' = "checkErr"
             /\ UNCHANGED pool
    /\ UNCHANGED <<configVars, exited, exitCode, deferred, published, models,
                   taskVars, now, drainVars, lastPoll>>

\* openDB, lines 170 to 181: the errors of both Atoi calls are dropped.
SetLimits ==
    /\ ~exited /\ pc = "limits"
    /\ LET maxOpenCon == Atoi(cfg["db-max-open-conns"]).n
           maxIdleCon == Atoi(cfg["db-max-idle-conns"]).n
           duration == ParseDuration(cfg["db-max-idle-time"])
       IN  IF duration.err
           THEN /\ pool' = [pool EXCEPT !.maxOpen = maxOpenCon,
                                        !.maxIdle = maxIdleCon]
                /\ db' = "nil" /\ err' = "duration"
                /\ pc' = "checkErr"
           ELSE /\ pool' = [pool EXCEPT !.maxOpen = maxOpenCon,
                                        !.maxIdle = maxIdleCon,
                                        !.maxIdleTime = duration.d]
                /\ pc' = "ping"
                /\ UNCHANGED <<db, err>>
    /\ UNCHANGED <<configVars, exited, exitCode, deferred, published, models,
                   taskVars, now, drainVars, lastPoll>>

\* The pool's open connections once the ping's connection is handed back:
\* database/sql keeps it idle only under a positive idle limit.
OpenAfterPing(p) == IF p.maxIdle > 0 THEN 1 ELSE 0

\* What openDB returns after PingContext, lines 186 to 191.
PingReturnsHandleOnError(outcome) ==
    [db |-> "pool", err |-> IF outcome = "ok" THEN "nil" ELSE "ping"]

PingReturn(outcome) ==
    IF outcome = "ok" THEN [db |-> "pool", err |-> "nil"]
    ELSE [db |-> "nil", err |-> "ping"]

\* openDB, lines 183 to 191: one PingContext under a 5 second timeout.
Ping ==
    /\ ~exited /\ pc = "ping"
    /\ \E outcome \in {"ok", "rejected", "timeout"} :
        /\ pool' = [pool EXCEPT !.pings = @ + 1, !.lastPing = outcome,
                                !.open = IF outcome = "ok"
                                         THEN OpenAfterPing(pool) ELSE 0]
        /\ db' = PingReturn(outcome).db
        /\ err' = PingReturn(outcome).err
    /\ pc' = "checkErr"
    /\ UNCHANGED <<configVars, exited, exitCode, deferred, published, models,
                   taskVars, now, drainVars, lastPoll>>

ErrCheckOmitted(e) == FALSE

\* The test of lines 98 and 128.
ErrCheck(e) == e # "nil"

\* Lines 98 to 100.
MainCheckOpenErr ==
    /\ ~exited /\ pc = "checkErr"
    /\ IF ErrCheck(err)
       THEN PrintFatal /\ UNCHANGED pc
       ELSE pc' = "defer" /\ UNCHANGED <<exited, exitCode>>
    /\ UNCHANGED <<configVars, poolVars, deferred, published, models, taskVars,
                   now, drainVars, lastPoll>>

\* Line 102.
MainDeferClose ==
    /\ ~exited /\ pc = "defer"
    /\ deferred' = <<"db.Close">> \o deferred
    /\ pc' = "publish"
    /\ UNCHANGED <<configVars, poolVars, exited, exitCode, published, models,
                   taskVars, now, drainVars, lastPoll>>

AccessorNames == {"version", "goroutines", "database", "timestamp"}

\* Lines 105 to 117.
PublishDiagnostics ==
    /\ ~exited /\ pc = "publish"
    /\ published' = published \cup AccessorNames
    /\ pc' = "newApp"
    /\ UNCHANGED <<configVars, poolVars, exited, exitCode, deferred, models,
                   taskVars, now, drainVars, lastPoll>>

\* Lines 119 to 125: data.NewModels(db) is handed main's db.
NewApplication ==
    /\ ~exited /\ pc = "newApp"
    /\ models' = db
    /\ wg' = 0
    /\ pc' = "serve"
    /\ UNCHANGED <<configVars, poolVars, exited, exitCode, deferred, published,
                   tasks, now, drainVars, lastPoll>>

\* Line 127, app.serve() up to the listener: it serves, or returns the error
\* of a listener that could not bind.
ServeListen ==
    /\ ~exited /\ pc = "serve"
    /\ \E bound \in BOOLEAN :
        IF bound
        THEN pc' = "serving" /\ UNCHANGED err
        ELSE pc' = "served" /\ err' = "listen"
    /\ UNCHANGED <<configVars, pool, db, exited, exitCode, deferred, published,
                   models, taskVars, now, drainVars, lastPoll>>

---------------------------------------------------------------------------
(* Serving: background tasks, pool use, diagnostics polls, shutdown *)

Alive == ~exited /\ pc \in {"serving", "draining"}

Running == {i \in 1..MaxTasks : tasks[i] = "running"}

\* "Run asynchronously and track": the count goes up before the launch.
Submit(i) ==
    /\ ~exited /\ pc = "serving"
    /\ tasks[i] = "idle"
    /\ IF i = 1 THEN TRUE ELSE tasks[i - 1] # "idle"
    /\ wg' = wg + 1
    /\ tasks' = [tasks EXCEPT ![i] = "running"]
    /\ UNCHANGED <<configVars, poolVars, pc, exited, exitCode, deferred,
                   published, models, now, drainVars, lastPoll>>

RecoverWithoutDone(n) == n

\* The wrapper's deferred function on a panic: recover, log, count down.
RecoverAndDone(n) == n - 1

\* The tracked work returns: the wrapper counts down.
TaskReturn(i) ==
    /\ ~exited /\ tasks[i] = "running"
    /\ wg' = wg - 1
    /\ tasks' = [tasks EXCEPT ![i] = "done"]
    /\ UNCHANGED <<configVars, poolVars, pc, exited, exitCode, deferred,
                   published, models, now, drainVars, lastPoll>>

\* The tracked work panics: the failure stays inside the task.
TaskPanic(i) ==
    /\ ~exited /\ tasks[i] = "running"
    /\ wg' = RecoverAndDone(wg)
    /\ tasks' = [tasks EXCEPT ![i] = "failed"]
    /\ UNCHANGED <<configVars, poolVars, pc, exited, exitCode, deferred,
                   published, models, now, drainVars, lastPoll>>

\* A handler takes a connection from the pool, within its open limit.
PoolAcquire ==
    /\ Alive /\ pool.closes = 0
    /\ pool.inUse < MaxConns
    /\ pool.maxOpen <= 0 \/ pool.inUse < pool.maxOpen
    /\ pool' = [pool EXCEPT !.inUse = @ + 1,
                            !.open = IF pool.open > pool.inUse THEN @ ELSE @ + 1]
    /\ UNCHANGED <<configVars, db, err, pc, exited, exitCode, deferred,
                   published, models, taskVars, now, drainVars, lastPoll>>

\* A handler hands its connection back: kept idle within the idle limit.
PoolRelease ==
    /\ Alive /\ pool.inUse > 0
    /\ pool' = [pool EXCEPT !.inUse = @ - 1,
                            !.open = IF pool.open - pool.inUse < pool.maxIdle
                                     THEN @ ELSE @ - 1]
    /\ UNCHANGED <<configVars, db, err, pc, exited, exitCode, deferred,
                   published, models, taskVars, now, drainVars, lastPoll>>

Tick ==
    /\ Alive
    /\ IF pc = "draining" THEN now < deadline ELSE now < MaxTime
    /\ now' = now + 1
    /\ UNCHANGED <<configVars, poolVars, pc, exited, exitCode, deferred,
                   published, models, taskVars, drainVars, lastPoll>>

\* db.Stats()
PoolStats(p) == [open |-> p.open, inUse |-> p.inUse, idle |-> p.open - p.inUse]

\* runtime.NumGoroutine(): main and the running background tasks.
NumGoroutine == 1 + Cardinality(Running)

StatsAtRegistration == PoolStats([pool EXCEPT !.open = OpenAfterPing(pool), !.inUse = 0])

\* The expvar.Func of line 111, called by a poll.
databaseAccessor == PoolStats(pool)

\* The values of lines 105 to 117, each computed when it is read.
Accessor(name) ==
    CASE name = "version" -> version
      [] name = "goroutines" -> NumGoroutine
      [] name = "database" -> databaseAccessor
      [] name = "timestamp" -> now

\* The monitoring tool reads one published variable.
Poll(name) ==
    /\ Alive /\ name \in published
    /\ lastPoll' = [name |-> name, value |-> Accessor(name)]
    /\ UNCHANGED <<configVars, poolVars, pc, exited, exitCode, deferred,
                   published, models, taskVars, now, drainVars>>

\* The interrupt or terminate signal: no new requests, the grace period starts.
Shutdown ==
    /\ ~exited /\ pc = "serving"
    /\ pc' = "draining"
    /\ deadline' = now + GracePeriod
    /\ UNCHANGED <<configVars, poolVars, exited, exitCode, deferred, published,
                   models, taskVars, now, drainLog, lastPoll>>

\* Wait for drain returns: the count is zero.
DrainComplete ==
    /\ ~exited /\ pc = "draining"
    /\ wg = 0
    /\ drainLog' = [kind |-> "drained", count |-> wg]
    /\ pc' = "served" /\ err' = "nil"
    /\ UNCHANGED <<configVars, pool, db, exited, exitCode, deferred, published,
                   models, taskVars, now, deadline, lastPoll>>

GraceNeverExpires(t, d) == FALSE

GraceExpired(t, d) == t >= d

\* The grace period is over with work outstanding: a warning, and on.
GraceElapsed ==
    /\ ~exited /\ pc = "draining"
    /\ wg > 0
    /\ GraceExpired(now, deadline)
    /\ drainLog' = [kind |-> "timeout", count |-> wg]
    /\ pc' = "served" /\ err' = "nil"
    /\ UNCHANGED <<configVars, pool, db, exited, exitCode, deferred, published,
                   models, taskVars, now, deadline, lastPoll>>

---------------------------------------------------------------------------
(* main after serve *)

\* Lines 128 to 130.
MainCheckServeErr ==
    /\ ~exited /\ pc = "served"
    /\ IF ErrCheck(err)
       THEN PrintFatal /\ UNCHANGED pc
       ELSE pc' = "return" /\ UNCHANGED <<exited, exitCode>>
    /\ UNCHANGED <<configVars, poolVars, deferred, published, models, taskVars,
                   now, drainVars, lastPoll>>

\* Line 131: main returns, its deferred db.Close runs, the process exits 0.
\* Close on a nil *sql.DB panics (status 2).
MainReturn ==
    /\ ~exited /\ pc = "return"
    /\ IF deferred # << >> /\ db = "nil"
       THEN Exit(2) /\ UNCHANGED pool
       ELSE /\ pool' = [pool EXCEPT !.closes = @ + Len(deferred),
                                    !.open = 0, !.inUse = 0]
            /\ Exit(0)
    /\ deferred' = << >>
    /\ UNCHANGED <<configVars, db, err, pc, published, models, taskVars, now,
                   drainVars, lastPoll>>

---------------------------------------------------------------------------
(* Specifications *)

Startup ==
    \/ init
    \/ RegisterFlags
    \/ FlagParse
    \/ SqlOpen
    \/ SetLimits
    \/ Ping
    \/ MainCheckOpenErr
    \/ MainDeferClose
    \/ PublishDiagnostics
    \/ NewApplication
    \/ ServeListen

Next ==
    \/ Startup
    \/ \E i \in 1..MaxTasks : Submit(i)
    \/ \E i \in 1..MaxTasks : TaskReturn(i)
    \/ \E i \in 1..MaxTasks : TaskPanic(i)
    \/ PoolAcquire
    \/ PoolRelease
    \/ Tick
    \/ \E name \in AccessorNames : Poll(name)
    \/ Shutdown
    \/ DrainComplete
    \/ GraceElapsed
    \/ MainCheckServeErr
    \/ MainReturn

\* The settings that decide whether startup reaches serve.
LifecycleSettings == {"db-max-idle-time", "limiter-rps"}

Init == InitWith(Inputs(LifecycleSettings))

\* The whole life of the process.
Spec == Init /\ [][Next]_vars

\* The same, with the scheduling Go gives the main goroutine and its timer;
\* nothing makes a background task end.
FairSpec ==
    /\ Spec
    /\ WF_vars(Tick)
    /\ WF_vars(DrainComplete)
    /\ WF_vars(GraceElapsed)
    /\ WF_vars(MainCheckServeErr)
    /\ WF_vars(MainReturn)

InitConfig == InitWith(Inputs(FlagNames))

\* Configuration resolution and startup, for every setting.
SpecConfig == InitConfig /\ [][Startup]_vars

---------------------------------------------------------------------------
(* What the documented precedence resolves each setting to *)

\* The built-in default of each setting.
Default(f) ==
    CASE f = "port" -> S_4000
      [] f = "env" -> S_development
      [] f \in {"db-max-open-conns", "db-max-idle-conns"} -> S_25
      [] f \in {"db-max-idle-time", "smtp-sender"} -> S_15m
      [] f = "limiter-rps" -> 2
      [] f = "limiter-burst" -> 4
      [] f = "limiter-enabled" -> TRUE
      [] f = "smtp-port" -> 25
      [] f = "cors-trusted-origins" -> <<S_star>>
      [] OTHER -> Empty

\* A supplied string as the value of setting f.
Typed(f, s) ==
    CASE KindOf(f) = "int" -> Atoi(s).n
      [] KindOf(f) = "bool" -> ParseBool(s).b
      [] KindOf(f) = "func" -> Split(s)
      [] OTHER -> s

\* Flag, else the setting's own variable, else the default.
Resolved(f) ==
    IF f \in DOMAIN args THEN Typed(f, args[f])
    ELSE IF environ[OwnEnv(f)] # Empty THEN Typed(f, environ[OwnEnv(f)])
    ELSE Default(f)

\* main has resolved its configuration and not failed.
ConfigResolved == ~exited /\ pc \notin {"init", "flags", "parse"}

\* Whether string s is well formed for setting f.
WellFormed(f, s) ==
    CASE f \in {"db-max-open-conns", "db-max-idle-conns"} -> ~Atoi(s).err
      [] f = "db-max-idle-time" -> ~ParseDuration(s).err
      [] KindOf(f) = "int" -> ~Atoi(s).err
      [] KindOf(f) = "bool" -> ~ParseBool(s).err
      [] OTHER -> TRUE

InitializingAt == {"init", "flags", "parse", "openDB", "limits", "ping", "checkErr"}

\* The lifecycle state of the coordinator.
Lifecycle ==
    IF exited THEN "Terminated"
    ELSE IF pc \in InitializingAt THEN "Initializing"
    ELSE IF pc \in {"defer", "publish", "newApp", "serve"} THEN "PoolReady"
    ELSE IF pc = "serving" THEN "Serving"
    ELSE IF pc = "served" /\ err = "listen" THEN "PoolReady"
    ELSE "Draining"

---------------------------------------------------------------------------
(* Claims *)

\* The settings with one value; the list of trusted origins is C2's.
ScalarSettings == FlagNames \ {"cors-trusted-origins"}

\* C1: once the configuration is resolved, every scalar setting holds the
\* flag's value if the flag was supplied, else the value of the setting's own
\* environment variable if set, else the built-in default.
C1_FlagThenEnvThenDefault ==
    ConfigResolved => \A f \in ScalarSettings : cfg[f] = Resolved(f)

\* C2: once the configuration is resolved, the trusted origins are the comma
\* split of the supplied origins, and <<"*">> when neither the flag nor the
\* variable supplies any.
C2_TrustedOrigins ==
    ConfigResolved =>
        cfg["cors-trusted-origins"] =
            IF "cors-trusted-origins" \in DOMAIN args
            THEN Split(args["cors-trusted-origins"])
            ELSE IF environ["CORS_TRUSTED_ORIGIN"] # Empty
            THEN Split(environ["CORS_TRUSTED_ORIGIN"])
            ELSE <<S_star>>

\* C3: the process never serves with a typed value that is present and
\* malformed: no integer or boolean flag or variable, and no connection limit
\* or idle time of the resolved configuration.
C3_MalformedNeverServes ==
    Lifecycle = "Serving" =>
        /\ \A f \in {g \in FlagNames : KindOf(g) \in {"int", "bool"}} :
            /\ f \in DOMAIN args => WellFormed(f, args[f])
            /\ environ[OwnEnv(f)] # Empty => WellFormed(f, environ[OwnEnv(f)])
        /\ \A f \in {"db-max-open-conns", "db-max-idle-conns", "db-max-idle-time"} :
            WellFormed(f, cfg[f])

\* C4: openDB pings at most once; main holds a handle if and only if that
\* ping succeeded; and when openDB has returned, every failure (sql.Open, the
\* duration, a rejected or timed out ping) left no handle and an error.
C4_HandleIffPingSucceeded ==
    /\ pool.pings <= 1
    /\ (db = "pool") <=> (pool.lastPing = "ok")
    /\ (~exited /\ pc = "checkErr") =>
        /\ (db = "nil") <=> (err # "nil")
        /\ (~pool.opened \/ ParseDuration(cfg["db-max-idle-time"]).err
              \/ pool.lastPing \in {"rejected", "timeout"})
            => (db = "nil" /\ err # "nil")

C4_Witness ==
    /\ ~exited /\ pc = "checkErr"
    /\ pool.pings = 1 /\ pool.lastPing = "timeout"
    /\ db = "nil" /\ err = "ping"

\* A state in which configuration resolution or pool initialization fails.
ConfigFails ==
    \/ pc = "init" /\ ~dotenv
    \/ /\ pc = "flags"
       /\ \E f \in FlagNames :
            /\ KindOf(f) \in {"int", "bool"}
            /\ environ[OwnEnv(f)] # Empty
            /\ ~WellFormed(f, environ[OwnEnv(f)])
    \/ /\ pc = "parse"
       /\ \E f \in DOMAIN args :
            KindOf(f) \in {"int", "bool"} /\ ~WellFormed(f, args[f])

PoolInitFails == pc = "checkErr" /\ err # "nil"

\* C5: the pool is opened only after the configuration is resolved, the
\* diagnostics are published only after a successful pool initialization, the
\* listener starts only after the diagnostics are published; and a failure of
\* configuration resolution or of pool initialization is followed at once by
\* exit with a non-zero status, PoolReady and Serving never reached.
C5_StartupOrder ==
    /\ [](pool.opened => pc \notin {"init", "flags", "parse"})
    /\ [](published # {} => (db = "pool" /\ pool.lastPing = "ok"))
    /\ [](pc \in {"serving", "draining"} => published = AccessorNames)
    /\ []((exited /\ pc \in InitializingAt) =>
            (exitCode # 0 /\ published = {} /\ models = "unset"))
    /\ [][(~exited /\ (ConfigFails \/ PoolInitFails)) =>
            (exited' /\ exitCode' # 0 /\ pc' = pc)]_vars

C5_Witness ==
    /\ Lifecycle = "Serving"
    /\ published = AccessorNames
    /\ pool.opened /\ pool.lastPing = "ok"

\* C6: a process that exits after openDB gave it a pool has closed the pool
\* exactly once, and the pool is closed only once serving and draining are
\* over.
C6_ClosedOnceAfterDrain ==
    /\ (exited /\ db = "pool") => pool.closes = 1
    /\ pool.closes <= 1
    /\ pool.closes > 0 => pc = "return"

\* C7: the outstanding count is never negative, equals the number of tasks
\* launched and not yet ended (one up per launch, one down per return or
\* panic), is zero once every task has ended, and the drain wait returns only
\* on a count of zero.
C7_TrackerCount ==
    /\ wg >= 0
    /\ wg = Cardinality(Running)
    /\ (\A i \in 1..MaxTasks : tasks[i] \in {"done", "failed"}) => wg = 0
    /\ drainLog.kind = "drained" => drainLog.count = 0

C7_Witness ==
    /\ \A i \in 1..MaxTasks : tasks[i] \in {"done", "failed"}
    /\ \E i \in 1..MaxTasks : tasks[i] = "failed"
    /\ wg = 0
    /\ drainLog.kind = "drained"

\* C8: once draining, the process eventually exits; a drain that completed
\* logged a count of zero, and one that did not ended at the deadline with a
\* warning of the tasks still outstanding.
C8_ShutdownTerminates ==
    /\ (pc = "draining") ~> exited
    /\ [](drainLog.kind = "drained" => drainLog.count = 0)
    /\ [](drainLog.kind = "timeout" => (drainLog.count > 0 /\ now = deadline))

C8_Witness ==
    /\ exited /\ exitCode = 0
    /\ drainLog.kind = "timeout" /\ drainLog.count = MaxTasks

\* What each published name stands for, read off the state.
LiveValue(name) ==
    CASE name = "version" -> <<"1", ".", "0", ".", "0">>
      [] name = "goroutines" -> 1 + Cardinality({i \in 1..MaxTasks : tasks[i] = "running"})
      [] name = "database" ->
            [open |-> pool.open, inUse |-> pool.inUse, idle |-> pool.open - pool.inUse]
      [] name = "timestamp" -> now

\* C9: a poll answers with the value the process has at the time of the poll
\* (the pool's statistics as they are then, for "database"), and changes
\* nothing but the answer.
C9_PollReadsLive ==
    [][(lastPoll'.name # lastPoll.name \/ lastPoll'.value # lastPoll.value) =>
        /\ lastPoll'.value = LiveValue(lastPoll'.name)
        /\ UNCHANGED <<configVars, poolVars, pc, exited, exitCode, deferred,
                       published, models, taskVars, now, drainVars>>]_vars

C9_Witness ==
    /\ lastPoll.name = "database"
    /\ lastPoll.value.inUse > 0
    /\ lastPoll.value # StatsAtRegistration

\* C10: the deferred Close, the "database" accessor and data.NewModels only
\* ever hold the handle of a successful openDB, never nil.
C10_HandleNeverNil ==
    /\ deferred # << >> => db = "pool"
    /\ "database" \in published => db = "pool"
    /\ models \in {"unset", "pool"}

C10_Witness ==
    /\ deferred = <<"db.Close">>
    /\ "database" \in published
    /\ models = "pool"

====
